---------------------------- MODULE Spec2Model ----------------------------
(***************************************************************************)
(* A model of crypto_utils.py: the DesignMatrix pipeline (construction,    *)
(* per-asset loading, join, rolling standardization, relative-lag          *)
(* indicator, news merge, label construction) and its reuse across         *)
(* get_data calls.                                                         *)
(*                                                                         *)
(* Numbers.  A float cell is a record [k, n, d]:                           *)
(*   k = "num"  the rational n/d (d > 0, lowest terms);                    *)
(*   k = "sq"   a z-score z, held exactly as its signed square             *)
(*              sgn(z)*z^2 = n/d (d > 0, lowest terms): the map            *)
(*              z |-> sgn(z)*z^2 is a strictly increasing bijection, so    *)
(*              order and equality of z-scores are those of n/d;           *)
(*   k = "inf"  +infinity (n = 1) or -infinity (n = -1);                   *)
(*   k = "nan"  a missing value (NaN);                                     *)
(*   k = "bool" a numpy bool (n = 1 for True, 0 for False).                *)
(* Arithmetic is exact; floating-point rounding is not modelled.           *)
(*                                                                         *)
(* Dates are the integers 1..NumDates (consecutive calendar days).         *)
(* A DataFrame is [cols |-> set of column names, rows |-> sequence of      *)
(* [date, v]] with v a function from cols to cells, rows in index order.   *)
(* pandas behaviour is that of pandas >= 1.5 without copy-on-write.        *)
(***************************************************************************)
EXTENDS Integers, Sequences, FiniteSets, TLC

(***************************************************************************)
(* Bounds of the model.                                                    *)
(***************************************************************************)
\* Number of calendar days the source files span.
NumDates == 7
\* Number of get_data calls made on one DesignMatrix object.
MaxCalls == 2

(***************************************************************************)
(* Configuration (keyword arguments of DesignMatrix), scaled down.         *)
(***************************************************************************)
n_rolling_price == 1
n_rolling_volume == 1
n_std_window == 2
n_std_window_noncrypto == 3

Dates == 1..NumDates

(***************************************************************************)
(* Float cells.                                                            *)
(***************************************************************************)
Abs(x) == IF x < 0 THEN -x ELSE x

Sgn(x) == IF x < 0 THEN -1 ELSE IF x > 0 THEN 1 ELSE 0

RECURSIVE GCD(_, _)
GCD(a, b) == IF b = 0 THEN a ELSE GCD(b, a % b)

NaN == [k |-> "nan", n |-> 0, d |-> 0]

Inf(s) == [k |-> "inf", n |-> s, d |-> 0]

\* The cell of kind kind (num or sq) for n/d, d > 0, in lowest terms.
Frac(kind, n, d) ==
    LET g == GCD(Abs(n), d)
    IN  [k |-> kind, n |-> n \div g, d |-> d \div g]

Num(i) == [k |-> "num", n |-> i, d |-> 1]

Bool(b) == [k |-> "bool", n |-> IF b THEN 1 ELSE 0, d |-> 1]

\* IEEE division n/d of two integers: x/0 is +-inf, 0/0 is NaN.
Quot(kind, n, d) ==
    IF d = 0 THEN (IF n = 0 THEN NaN ELSE Inf(Sgn(n)))
    ELSE IF d < 0 THEN Frac(kind, -n, -d)
    ELSE Frac(kind, n, d)

IsNaN(v) == v.k = "nan"

IsFinite(v) == v.k \in {"num", "sq"}

\* Signed square of a finite cell, as a pair <<numerator, denominator>>.
SignedSquare(v) ==
    IF v.k = "sq" THEN <<v.n, v.d>> ELSE <<Sgn(v.n) * v.n * v.n, v.d * v.d>>

\* Python's a < b on floats: False whenever either side is NaN.
Less(a, b) ==
    IF IsNaN(a) \/ IsNaN(b) THEN FALSE
    ELSE IF a.k = "inf" THEN a.n = -1 /\ ~(b.k = "inf" /\ b.n = -1)
    ELSE IF b.k = "inf" THEN b.n = 1
    ELSE LET sa == SignedSquare(a)
             sb == SignedSquare(b)
         IN  sa[1] * sb[2] < sb[1] * sa[2]

(***************************************************************************)
(* Sequence helpers.                                                       *)
(***************************************************************************)
RECURSIVE SumSeq(_)
SumSeq(s) == IF s = <<>> THEN 0 ELSE Head(s) + SumSeq(Tail(s))

RECURSIVE ProdSeq(_)
ProdSeq(s) == IF s = <<>> THEN 1 ELSE Head(s) * ProdSeq(Tail(s))

Range(s) == {s[i] : i \in DOMAIN s}

Contains(s, e) == \E i \in DOMAIN s : s[i] = e

\* The dates of a set, ascending.
RECURSIVE SortedDates(_)
SortedDates(S) ==
    IF S = {} THEN <<>>
    ELSE LET m == CHOOSE x \in S : \A y \in S : x <= y
         IN  <<m>> \o SortedDates(S \ {m})

Max(a, b) == IF a >= b THEN a ELSE b

Min(a, b) == IF a <= b THEN a ELSE b

(***************************************************************************)
(* DataFrames.                                                             *)
(***************************************************************************)
\* The value of an attribute that was never assigned (Python's None).
None == [none |-> TRUE, cols |-> {}, rows |-> <<>>]

DF(cols, rows) == [none |-> FALSE, cols |-> cols, rows |-> rows]

\* A dropna that drops nothing.
dropna_skipped(df) == df

\* DataFrame.dropna(axis=0, how='any'): the rows with no missing cell.
dropna(df) ==
    LET complete(r) == \A c \in df.cols : ~IsNaN(r.v[c])
    IN  DF(df.cols, SelectSeq(df.rows, complete))

\* A fillna that fills nothing.
fillna_skipped(col, value) == col

\* Series.fillna(value): missing cells replaced, the others kept.
fillna(col, value) ==
    [i \in DOMAIN col |-> IF IsNaN(col[i]) THEN value ELSE col[i]]

\* Series.pct_change(periods) of a column of raw non-negative numbers:
\* x[i]/x[i-periods] - 1, missing for the first `periods` rows.
pct_change(col, periods) ==
    [i \in DOMAIN col |->
        IF i <= periods THEN NaN
        ELSE Quot("num", col[i] - col[i - periods], col[i - periods])]

\* DataFrame.ffill() of one column: each missing cell takes the last
\* non-missing cell before it, if there is one.
ffill(col) ==
    [i \in DOMAIN col |->
        IF ~IsNaN(col[i]) THEN col[i]
        ELSE LET prior == {j \in 1..(i - 1) : ~IsNaN(col[j])}
             IN  IF prior = {} THEN NaN
                 ELSE col[CHOOSE j \in prior : \A m \in prior : m <= j]]

(***************************************************************************)
(* The state.                                                              *)
(***************************************************************************)
VARIABLES
    files,      \* the data directory: asset name -> set of csv rows
    news,       \* the news table handed to the constructor (a DataFrame)
    caller,     \* the x_cryptos list object and y_crypto the caller passes
    self,       \* the DesignMatrix object (None-like before construction)
    pc,         \* where the caller / the running get_data call is
    args,       \* the arguments of the current get_data call
    ret,        \* what the current get_data call returned (X, Y)
    prev,       \* the arguments and the result of the call before it
    calls       \* number of get_data calls started

vars == <<files, news, caller, self, pc, args, ret, prev, calls>>

(***************************************************************************)
(* Loading (lines 123-347).                                                *)
(***************************************************************************)
\* load_asset: the rows of data/<fname>.csv.
load_asset(fname) == files[fname]

\* DataFrame.sort_index(ascending=True): the index of a csv, ascending.
sort_index(csv) == SortedDates({r.date : r \in csv})

\* The csv row of a date of the index.
RowAt(csv, date) == CHOOSE r \in csv : r.date = date

\* DataFrame.reindex(index=pd.date_range(start, end), fill_value=NaN) of
\* columns held as functions over the positions of the sorted index idx.
reindex(idx, colvals, start_date, end_date) ==
    [p \in 1..Max(0, end_date - start_date + 1) |->
        LET date == start_date + p - 1
            at   == {i \in DOMAIN idx : idx[i] = date}
        IN  [date |-> date,
             v    |-> [c \in DOMAIN colvals |->
                          IF at = {} THEN NaN
                          ELSE colvals[c][CHOOSE i \in at : TRUE]]]]

col_volume(crypto) == crypto \o "_volume"

_load_crypto_time_series(obj, crypto) ==
    LET csv       == load_asset(crypto)
        idx       == sort_index(csv)
        col_price == crypto
        col_vol   == col_volume(crypto)
        close     == [i \in DOMAIN idx |-> RowAt(csv, idx[i]).close]
        volume    == [i \in DOMAIN idx |-> RowAt(csv, idx[i]).volume]
        px        == pct_change(close, obj.n_rolling_price)
        vol       == fillna(pct_change(volume, obj.n_rolling_volume), Num(0))
        start_date == Max(obj.start_date, idx[1])
        end_date   == Min(obj.end_date, idx[Len(idx)])
        colvals   == [c \in {col_price, col_vol} |->
                         IF c = col_price THEN px ELSE vol]
    IN  DF({col_price, col_vol}, reindex(idx, colvals, start_date, end_date))

_load_noncrypto_time_series(obj, asset) ==
    LET csv       == load_asset(asset)
        idx       == sort_index(csv)
        col_price == asset
        close     == [i \in DOMAIN idx |-> RowAt(csv, idx[i]).close]
        px        == pct_change(close, obj.n_rolling_price)
        start_date == Max(obj.start_date, idx[1])
        end_date   == Min(obj.end_date, idx[Len(idx)])
        colvals   == [c \in {col_price} |-> px]
        df        == reindex(idx, colvals, start_date, end_date)
        filled    == ffill([i \in DOMAIN df |-> df[i].v[col_price]])
    IN  DF({col_price},
           [i \in DOMAIN df |->
               [date |-> df[i].date, v |-> [c \in {col_price} |-> filled[i]]]])

\* The columns that occur more than once in the joined frame: pd.concat
\* keeps both copies when xy_cryptos names a crypto twice.
DuplicatedCols(obj) ==
    LET twice == {c \in Range(obj.xy_cryptos) :
                    Cardinality({i \in DOMAIN obj.xy_cryptos :
                                    obj.xy_cryptos[i] = c}) > 1}
    IN  twice \cup {col_volume(c) : c \in twice}

\* pd.concat(dfs, axis=1, join='inner'): the dates every frame has, with the
\* columns of all of them.
concat_inner(dfs) ==
    LET dateset(df) == {df.rows[i].date : i \in DOMAIN df.rows}
        common  == {d \in Dates : \A k \in DOMAIN dfs : d \in dateset(dfs[k])}
        idx     == SortedDates(common)
        cols    == UNION {dfs[k].cols : k \in DOMAIN dfs}
        owner(c) == dfs[CHOOSE k \in DOMAIN dfs : c \in dfs[k].cols]
        cell(df, d, c) ==
            df.rows[CHOOSE i \in DOMAIN df.rows : df.rows[i].date = d].v[c]
    IN  DF(cols,
           [p \in DOMAIN idx |->
               [date |-> idx[p],
                v    |-> [c \in cols |-> cell(owner(c), idx[p], c)]]])

\* load_asset raises (FileNotFoundError) for an asset with no csv.
LoadFails(obj) ==
    \E a \in Range(obj.xy_cryptos) \cup Range(obj.x_assets) : a \notin DOMAIN files

_load_time_series(obj) ==
    IF obj.done_loading_time_series THEN obj
    ELSE LET cryptos == [i \in DOMAIN obj.xy_cryptos |->
                            _load_crypto_time_series(obj, obj.xy_cryptos[i])]
             assets  == [i \in DOMAIN obj.x_assets |->
                            _load_noncrypto_time_series(obj, obj.x_assets[i])]
             df_result == dropna(concat_inner(cryptos \o assets))
         IN  [obj EXCEPT !.df_time_series = df_result,
                         !.df_final = df_result,
                         !.done_loading_time_series = TRUE]

(***************************************************************************)
(* Construction (lines 164-185).                                           *)
(***************************************************************************)
\* list.remove(e): the list without the first occurrence of e.
RECURSIVE remove(_, _)
remove(s, e) ==
    IF s = <<>> THEN <<>>
    ELSE IF Head(s) = e THEN Tail(s)
    ELSE <<Head(s)>> \o remove(Tail(s), e)

\* DesignMatrix.__init__(x_cryptos, y_crypto, **kwargs).
__init__(x_cryptos, y_crypto, kwargs) ==
    LET xs == IF Contains(x_cryptos, y_crypto)
              THEN remove(x_cryptos, y_crypto) ELSE x_cryptos
    IN  [x_cryptos |-> xs,
         y_crypto |-> y_crypto,
         xy_cryptos |-> Append(xs, y_crypto),
         x_assets |-> kwargs.x_assets,
         n_rolling_price |-> n_rolling_price,
         n_rolling_volume |-> n_rolling_volume,
         n_std_window_noncrypto |-> n_std_window_noncrypto,
         n_std_window |-> n_std_window,
         add_news |-> kwargs.add_news,
         start_date |-> kwargs.start_date,
         end_date |-> kwargs.end_date,
         df_time_series |-> None,
         df_final |-> None,
         _x_features |-> <<>>,
         done_loading_time_series |-> FALSE,
         done_std_price_and_volume |-> FALSE]

(***************************************************************************)
(* Rolling standardization (lines 361-408).                                *)
(***************************************************************************)
\* df[c]: a column as a sequence of cells.
Column(df, c) == [i \in DOMAIN df.rows |-> df.rows[i].v[c]]

\* df[c] = vals: the frame with column c set (added or overwritten).
SetColumn(df, c, vals) ==
    LET cols == df.cols \cup {c}
    IN  DF(cols,
           [i \in DOMAIN df.rows |->
               [date |-> df.rows[i].date,
                v    |-> [k \in cols |->
                             IF k = c THEN vals[i] ELSE df.rows[i].v[k]]]])

\* rolling_standardize(x) on a window of finite cells: x[-1] against the
\* mean and the population deviation (np.std) of x[0:-1].  With the cells
\* brought to the common denominator L (a[j] = x[j]*L) and N = len(x)-1:
\*   z = (N*a_cur - S) / sqrt(N * sum((N*a[j] - S)^2) / N^2),  S = sum(a),
\* returned as the signed square of z.
rolling_standardize(x) ==
    LET L    == ProdSeq([j \in DOMAIN x |-> x[j].d])
        a    == [j \in DOMAIN x |-> x[j].n * (L \div x[j].d)]
        x_current  == a[Len(x)]
        x_trailing == SubSeq(a, 1, Len(x) - 1)
        N    == Len(x_trailing)
        S    == SumSeq(x_trailing)
        top  == N * x_current - S
        dev2 == SumSeq([j \in DOMAIN x_trailing |->
                           (N * x_trailing[j] - S) * (N * x_trailing[j] - S)])
    IN  IF N = 0 THEN NaN
        ELSE Quot("sq", Sgn(top) * top * top * N, dev2)

\* Series.rolling(window).apply(rolling_standardize): missing until the
\* window is full (min_periods = window) and wherever the window holds a
\* missing or infinite cell (rolling turns inf into NaN), else the function
\* of the window ending at the row.
rolling_apply(col, window) ==
    [i \in DOMAIN col |->
        IF i < window THEN NaN
        ELSE LET x == SubSeq(col, i - window + 1, i)
             IN  IF \E j \in DOMAIN x : ~IsFinite(x[j]) THEN NaN
                 ELSE rolling_standardize(x)]

col_px_std(asset) == asset \o "_px_std"

col_volume_std(cryp) == cryp \o "_volume_std"

\* A window that forgets the slot of the current observation.
n_cryp_nominal(obj) == obj.n_std_window

\* The computation window for cryptos (line 368).
n_cryp(obj) == obj.n_std_window + 1

\* The computation window for the other assets (line 380).
n_non_cryp(obj) == obj.n_std_window_noncrypto + 1

\* The loop of lines 369-378 over the cryptos still to do.  Selecting a
\* duplicated column yields a two-column frame, and assigning it to one
\* column raises (ValueError) after the names were already recorded.
RECURSIVE StandardizeCryptos(_, _)
StandardizeCryptos(obj, todo) ==
    IF todo = <<>> THEN [obj |-> obj, raised |-> FALSE]
    ELSE LET cryp    == Head(todo)
             named   == [obj EXCEPT !._x_features =
                            @ \o <<col_px_std(cryp), col_volume_std(cryp)>>]
             price   == rolling_apply(Column(obj.df_final, cryp), n_cryp(obj))
             volume  == rolling_apply(Column(obj.df_final, col_volume(cryp)),
                                      n_cryp(obj))
             withpx  == SetColumn(obj.df_final, col_px_std(cryp), price)
             withvol == SetColumn(withpx, col_volume_std(cryp), volume)
         IN  IF cryp \in DuplicatedCols(obj)
             THEN [obj |-> named, raised |-> TRUE]
             ELSE StandardizeCryptos([named EXCEPT !.df_final = withvol],
                                     Tail(todo))

\* The loop of lines 381-386 over the non-crypto assets.
RECURSIVE StandardizeAssets(_, _)
StandardizeAssets(obj, todo) ==
    IF todo = <<>> THEN obj
    ELSE LET x_asset == Head(todo)
             price   == rolling_apply(Column(obj.df_final, x_asset),
                                      n_non_cryp(obj))
         IN  StandardizeAssets(
                 [obj EXCEPT !._x_features = Append(@, col_px_std(x_asset)),
                             !.df_final = SetColumn(@, col_px_std(x_asset), price)],
                 Tail(todo))

\* _standardize_price_volume: [obj, raised].
_standardize_price_volume(obj) ==
    IF obj.done_std_price_and_volume THEN [obj |-> obj, raised |-> FALSE]
    ELSE LET cryptos == StandardizeCryptos(obj, obj.xy_cryptos)
             done    == StandardizeAssets(cryptos.obj, obj.x_assets)
         IN  IF cryptos.raised THEN cryptos
             ELSE [obj |-> [done EXCEPT !.done_std_price_and_volume = TRUE],
                   raised |-> FALSE]

\* The x_feature_names property (lines 390-397).
x_feature_names(obj) ==
    IF obj.done_std_price_and_volume THEN obj._x_features
    ELSE obj._x_features \o obj.x_assets

(***************************************************************************)
(* Relative-lag indicator (lines 238-268).                                 *)
(***************************************************************************)
\* _get_crypto_price_change_col_names: (x_crypto_cols, y_crypto_col).
_get_crypto_price_change_col_names(obj) ==
    [x |-> [i \in DOMAIN obj.x_cryptos |-> col_px_std(obj.x_cryptos[i])],
     y |-> col_px_std(obj.y_crypto)]

\* Series.min() of the listed cells of a row: missing cells are skipped, and
\* the minimum of nothing is missing.
RowMin(row, names) ==
    LET cells == {row.v[names[i]] : i \in DOMAIN names}
        there == {c \in cells : ~IsNaN(c)}
    IN  IF there = {} THEN NaN
        ELSE CHOOSE m \in there : \A c \in there : ~Less(c, m)

\* crypto_return_was_worst(row, y_crypto, x_cryptos).
crypto_return_was_worst(row, y_crypto, x_cryptos) ==
    LET lowest_x == RowMin(row, x_cryptos)
    IN  Bool(Less(row.v[y_crypto], lowest_x))

\* An indicator step that takes an absent column for missing values: it
\* adds the column, all False, and the feature name.
_add_relative_lag_indicator_lenient(obj) ==
    LET df == obj.df_final
    IN  [obj |-> [obj EXCEPT
                    !.df_final = SetColumn(df, "lagged_others",
                                           [i \in DOMAIN df.rows |-> Bool(FALSE)]),
                    !._x_features = Append(@, "lagged_others")],
         raised |-> FALSE]

\* _add_relative_lag_indicator: [obj, raised].  Indexing a row by a label it
\* does not have raises KeyError on the first row; on a frame without rows
\* apply returns a copy of the frame, and assigning that frame to the one
\* column raises ValueError.  Either way nothing has been assigned yet.
_add_relative_lag_indicator(obj) ==
    LET names == _get_crypto_price_change_col_names(obj)
        df    == obj.df_final
        known == (Range(names.x) \cup {names.y}) \subseteq df.cols
        lagged == [i \in DOMAIN df.rows |->
                      crypto_return_was_worst(df.rows[i], names.y, names.x)]
    IN  IF df.rows = <<>> \/ ~known
        THEN [obj |-> obj, raised |-> TRUE]
        ELSE [obj |-> [obj EXCEPT
                         !.df_final = SetColumn(df, "lagged_others", lagged),
                         !._x_features = Append(@, "lagged_others")],
              raised |-> FALSE]

(***************************************************************************)
(* News features (lines 233-235).                                          *)
(***************************************************************************)
\* DataFrame.merge(right, left_index=True, right_index=True): the rows of
\* the left frame whose date the right frame has, with the columns of both;
\* a column name both frames have gets the suffix _x on the left and _y on
\* the right.  Suffixed names that clash with another column raise.
merge(left, right) ==
    LET rcols   == Range(right.columns)
        both    == left.cols \cap rcols
        lname(c) == IF c \in both THEN c \o "_x" ELSE c
        rname(c) == IF c \in both THEN c \o "_y" ELSE c
        lnames  == {lname(c) : c \in left.cols}
        rnames  == {rname(c) : c \in rcols}
        clash   == \/ lnames \cap rnames # {}
                   \/ \E c \in both : lname(c) \in left.cols \/ rname(c) \in left.cols
        rdates  == {right.rows[i].date : i \in DOMAIN right.rows}
        rrow(d) == right.rows[CHOOSE i \in DOMAIN right.rows :
                                 right.rows[i].date = d]
        keep(r) == r.date \in rdates
        kept    == SelectSeq(left.rows, keep)
        cell(r, n) ==
            IF \E c \in left.cols : lname(c) = n
            THEN r.v[CHOOSE c \in left.cols : lname(c) = n]
            ELSE rrow(r.date).v[CHOOSE c \in rcols : rname(c) = n]
    IN  [raised |-> clash,
         df |-> IF clash THEN left
                ELSE DF(lnames \cup rnames,
                        [i \in DOMAIN kept |->
                            [date |-> kept[i].date,
                             v |-> [n \in lnames \cup rnames |->
                                       cell(kept[i], n)]]])]

\* A news step that assigns the feature list (= for +=).
_add_news_features_assigning(obj) ==
    LET merged == merge(obj.df_final, news)
    IN  IF merged.raised THEN [obj |-> obj, raised |-> TRUE]
        ELSE [obj |-> [obj EXCEPT !.df_final = merged.df,
                                  !._x_features = news.columns],
              raised |-> FALSE]

\* _add_news_features: [obj, raised].
_add_news_features(obj) ==
    LET merged == merge(obj.df_final, news)
    IN  IF merged.raised THEN [obj |-> obj, raised |-> TRUE]
        ELSE [obj |-> [obj EXCEPT !.df_final = merged.df,
                                  !._x_features = @ \o news.columns],
              raised |-> FALSE]

(***************************************************************************)
(* Label construction (lines 223-231, 349-359).                            *)
(***************************************************************************)
\* A shift the other way (periods=+1): each row takes the row before it.
shift_forward(col) ==
    [i \in DOMAIN col |-> IF i > 1 THEN col[i - 1] ELSE NaN]

\* Series.shift(periods=-1): each row takes the next row's cell, the last
\* row a missing one.
shift_back(col) ==
    [i \in DOMAIN col |-> IF i < Len(col) THEN col[i + 1] ELSE NaN]

\* A loop body whose first test lets the tie through (>= for >).
category_inclusive(Y_i, threshold) ==
    IF ~Less(Y_i, Num(threshold)) /\ ~IsNaN(Y_i) THEN Num(1)
    ELSE IF Less(Y_i, Num(-threshold)) THEN Num(-1)
    ELSE Num(0)

\* One pass of the loop of _categorize_Y.
category(Y_i, threshold) ==
    IF Less(Num(threshold), Y_i) THEN Num(1)
    ELSE IF Less(Y_i, Num(-threshold)) THEN Num(-1)
    ELSE Num(0)

_categorize_Y(Y, threshold) == [i \in DOMAIN Y |-> category(Y[i], threshold)]

\* The column the label is taken from (lines 209-216).
y_continuous_col(obj, a) ==
    IF a.std /\ a.y_std THEN col_px_std(obj.y_crypto) ELSE obj.y_crypto

NoReturn == [none |-> TRUE, X |-> <<>>, Y |-> <<>>]

\* A selection that lets the label through: the listed columns and Y.
SelectColumns_with_label(df, names) ==
    [columns |-> Append(names, "Y"),
     rows |-> [i \in DOMAIN df.rows |->
                  [date |-> df.rows[i].date,
                   vals |-> [j \in 1..(Len(names) + 1) |->
                                IF j <= Len(names) THEN df.rows[i].v[names[j]]
                                ELSE df.rows[i].v["Y"]]]]]

\* df[names]: the listed columns, in the order listed.
SelectColumns(df, names) ==
    [columns |-> names,
     rows |-> [i \in DOMAIN df.rows |->
                  [date |-> df.rows[i].date,
                   vals |-> [j \in DOMAIN names |-> df.rows[i].v[names[j]]]]]]

\* Lines 223-231: [obj, raised, ret].  Selecting a duplicated label column
\* gives a frame whose assignment to Y raises before anything changed;
\* selecting a feature column the frame lacks raises KeyError after Y was
\* set and the rows were dropped.
build_label(obj, a) ==
    LET src     == y_continuous_col(obj, a)
        shifted == SetColumn(obj.df_final, "Y",
                             shift_back(Column(obj.df_final, src)))
        dropped == dropna(shifted)
        final   == IF a.y_category
                   THEN SetColumn(dropped, "Y",
                                  _categorize_Y(Column(dropped, "Y"),
                                                a.y_category_thresh))
                   ELSE dropped
        after   == [obj EXCEPT !.df_final = final]
        names   == x_feature_names(after)
        Y       == [i \in DOMAIN final.rows |->
                       [date |-> final.rows[i].date,
                        val |-> final.rows[i].v["Y"]]]
    IN  IF src \in DuplicatedCols(obj) \/ src \notin obj.df_final.cols
        THEN [obj |-> obj, raised |-> TRUE, ret |-> NoReturn]
        ELSE IF ~(Range(names) \subseteq final.cols)
        THEN [obj |-> after, raised |-> TRUE, ret |-> NoReturn]
        ELSE [obj |-> after, raised |-> FALSE,
              ret |-> [none |-> FALSE, X |-> SelectColumns(final, names), Y |-> Y]]

(***************************************************************************)
(* get_data (lines 187-231), statement by statement.                       *)
(***************************************************************************)
\* A load that marks the object loaded before it reads the files, and leaves
\* an empty matrix behind when a file is not there.
LoadStep_marking_first(obj) ==
    IF ~obj.done_loading_time_series /\ LoadFails(obj)
    THEN [obj |-> [obj EXCEPT !.df_time_series = DF({}, <<>>),
                              !.df_final = DF({}, <<>>),
                              !.done_loading_time_series = TRUE],
          raised |-> TRUE]
    ELSE [obj |-> _load_time_series(obj), raised |-> FALSE]

\* Line 206.
LoadStep(obj) ==
    IF ~obj.done_loading_time_series /\ LoadFails(obj)
    THEN [obj |-> obj, raised |-> TRUE]
    ELSE [obj |-> _load_time_series(obj), raised |-> FALSE]

\* Lines 209-210.
StdStep(obj, a) ==
    IF a.std THEN _standardize_price_volume(obj)
    ELSE [obj |-> obj, raised |-> FALSE]

\* Lines 217-218.
LagStep(obj, a) ==
    IF a.lag_indicator THEN _add_relative_lag_indicator(obj)
    ELSE [obj |-> obj, raised |-> FALSE]

\* Lines 220-221.
NewsStep(obj) ==
    IF obj.add_news THEN _add_news_features(obj)
    ELSE [obj |-> obj, raised |-> FALSE]

\* The whole call: [obj, raised, ret].
get_data(obj, a) ==
    LET loaded == LoadStep(obj)
        stdd   == StdStep(loaded.obj, a)
        lagged == LagStep(stdd.obj, a)
        newsed == NewsStep(lagged.obj)
        failed(step) == [obj |-> step.obj, raised |-> TRUE, ret |-> NoReturn]
    IN  IF loaded.raised THEN failed(loaded)
        ELSE IF stdd.raised THEN failed(stdd)
        ELSE IF lagged.raised THEN failed(lagged)
        ELSE IF newsed.raised THEN failed(newsed)
        ELSE build_label(newsed.obj, a)

(***************************************************************************)
(* load_returns_matrix (lines 411-485).                                    *)
(***************************************************************************)
CRYPTO_NAMES ==
    [n \in {"ripple", "bitcoin", "ethereum", "litecoin", "bitcoin-cash",
            "eos", "cardano", "stellar", "neo", "iota"} |->
        CASE n = "ripple" -> "xrp"
          [] n = "bitcoin" -> "btc"
          [] n = "ethereum" -> "eth"
          [] n = "litecoin" -> "ltc"
          [] n = "bitcoin-cash" -> "bch"
          [] n = "eos" -> "eos"
          [] n = "cardano" -> "ada"
          [] n = "stellar" -> "xlm"
          [] n = "neo" -> "neo"
          [] n = "iota" -> "miota"]

\* The keys of CRYPTO_SHORTHAND (lines 54-57).
CRYPTO_SHORTHAND == {CRYPTO_NAMES[n] : n \in DOMAIN CRYPTO_NAMES}

file_name_corresponds_to_crypto(fname) ==
    fname \in DOMAIN CRYPTO_NAMES \/ fname \in CRYPTO_SHORTHAND

\* An argument left at its default None.
NoDate == 0

\* pd.to_datetime('1/1/2010'): the first day of the calendar.
DefaultStart == 1

\* pd.to_datetime('today'): the last day of the calendar.
Today == NumDates

\* Line 455 as the function is written.
end_date_i(end_date, last) == Max(end_date, last)

\* Lines 441-459 for one asset: the frame appended to dfs.
returns_series(asset, xdays, start_date, end_date) ==
    LET is_crypto == file_name_corresponds_to_crypto(asset)
        csv   == load_asset(asset)
        idx   == sort_index(csv)
        close == [i \in DOMAIN idx |-> RowAt(csv, idx[i]).close]
        px    == pct_change(close, xdays)
        start_date_i == Max(start_date, idx[1])
        colvals == [c \in {asset} |-> px]
        df    == reindex(idx, colvals, start_date_i,
                         end_date_i(end_date, idx[Len(idx)]))
        filled == ffill([i \in DOMAIN df |-> df[i].v[asset]])
    IN  DF({asset},
           [i \in DOMAIN df |->
               [date |-> df[i].date, v |-> [c \in {asset} |-> filled[i]]]])

\* dfout[dfout.index >= start_date][dfout.index <= end_date].
between(df, start_date, end_date) ==
    LET inside(r) == start_date <= r.date /\ r.date <= end_date
    IN  DF(df.cols, SelectSeq(df.rows, inside))

\* sklearn.preprocessing.scale(dfout, axis=0, with_mean, with_std) of one
\* column of rationals: each cell minus the column mean (with_mean), over
\* the column's population deviation (with_std; a deviation of 0 counts as
\* 1).  With a common denominator L and integers a[j] = L * x[j], N rows,
\* S = sum a, V = N * sum a^2 - S^2: x - mean = (N*a - S)/(N*L) and the
\* deviation is sqrt(V)/(N*L).
scale_column(col, with_mean, with_std) ==
    LET L    == ProdSeq([j \in DOMAIN col |-> col[j].d])
        a(j) == col[j].n * (L \div col[j].d)
        N    == Len(col)
        S    == SumSeq([j \in DOMAIN col |-> a(j)])
        V    == N * SumSeq([j \in DOMAIN col |-> a(j) * a(j)]) - S * S
        top(i) == IF with_mean THEN N * a(i) - S ELSE N * a(i)
    IN  [i \in DOMAIN col |->
            IF with_std /\ V # 0
            THEN Frac("sq", Sgn(top(i)) * top(i) * top(i), V)
            ELSE Frac("num", top(i), N * L)]

\* Lines 479-482: [df, raised]; scale rejects a frame without rows and a
\* frame holding an infinite value.
scale(df, with_mean, with_std) ==
    IF df.rows = <<>> \/
       \E i \in DOMAIN df.rows : \E c \in df.cols : ~IsFinite(df.rows[i].v[c])
    THEN [df |-> df, raised |-> TRUE]
    ELSE LET scaled == [c \in df.cols |->
                           scale_column(Column(df, c), with_mean, with_std)]
         IN  [df |-> DF(df.cols,
                        [i \in DOMAIN df.rows |->
                            [date |-> df.rows[i].date,
                             v |-> [c \in df.cols |-> scaled[c][i]]]]),
              raised |-> FALSE]

\* dfout.rename(columns=CRYPTO_NAMES): a column named as a key takes the
\* key's value as its name.
rename(df, names) ==
    LET new(c) == IF c \in DOMAIN names THEN names[c] ELSE c
        old(n) == CHOOSE c \in df.cols : new(c) = n
        cols   == {new(c) : c \in df.cols}
    IN  DF(cols,
           [i \in DOMAIN df.rows |->
               [date |-> df.rows[i].date,
                v |-> [n \in cols |-> df.rows[i].v[old(n)]]]])

\* load_returns_matrix(assets, xdays, start_date, end_date, center, scale):
\* [raised, df].  A call raises for an xdays that is no int (line 431), for
\* a csv that is not there, for an empty list of assets (pd.concat) and
\* where scale does.
load_returns_matrix(a) ==
    LET xdays      == IF a.xdays.none THEN 1 ELSE a.xdays.val
        start_date == IF a.start_date = NoDate THEN DefaultStart ELSE a.start_date
        end_date   == IF a.end_date = NoDate THEN Today ELSE a.end_date
        dfs   == [i \in DOMAIN a.assets |->
                     returns_series(a.assets[i], xdays, start_date, end_date)]
        dfout == dropna(between(concat_inner(dfs), start_date, end_date))
        xout  == IF a.center \/ a.scale THEN scale(dfout, a.center, a.scale)
                 ELSE [df |-> dfout, raised |-> FALSE]
        failed == [raised |-> TRUE, df |-> None]
    IN  IF ~a.xdays.none /\ ~a.xdays.int THEN failed
        ELSE IF \E i \in DOMAIN a.assets : a.assets[i] \notin DOMAIN files
        THEN failed
        ELSE IF a.assets = <<>> THEN failed
        ELSE IF xout.raised THEN failed
        ELSE [raised |-> FALSE,
              df |-> IF a.use_shortnames THEN rename(xout.df, CRYPTO_NAMES)
                     ELSE xout.df]

(***************************************************************************)
(* The inputs: the csv files, the news table, the constructor's and        *)
(* get_data's arguments.                                                   *)
(***************************************************************************)
y_crypto == "btc"

\* A raw column over the calendar: a base pattern repeated cyclically.
At(pattern, date) == pattern[((date - 1) % Len(pattern)) + 1]

CryptoCsv(dates, closes, volumes) ==
    {[date |-> d, close |-> At(closes, d), volume |-> At(volumes, d)] : d \in dates}

AssetCsv(dates, closes) ==
    {[date |-> d, close |-> At(closes, d)] : d \in dates}

\* The target's csv: a price that stays flat for some days, one that moves
\* every day, one that doubles every day; a volume that moves every day and
\* one that starts with days of no volume.
BtcCsvs ==
    {CryptoCsv(Dates, closes, volumes) :
        closes \in {<<1, 2, 2, 2, 2, 1, 2>>, <<1, 2, 1, 2, 4, 2, 1>>,
                    <<1, 2, 4, 8, 16, 32, 64>>},
        volumes \in {<<1, 2, 1, 2, 1, 2, 1>>, <<0, 0, 1, 2, 1, 3, 1>>}}

\* Which days a csv has: every day, a later first day, a day missing inside.
DateSets == {Dates, Dates \ {1}, Dates \ {4}}

EthCsvs ==
    {CryptoCsv(dates, <<2, 1, 2, 4, 2, 1, 1>>, <<2, 1, 1, 2, 4, 2, 1>>) :
        dates \in DateSets}

AssetCsvs == {AssetCsv(dates, <<1, 2, 4, 2, 1, 2, 4>>) : dates \in DateSets}

FileSets ==
    {[n \in {"btc", "eth", "SP500"} |->
         IF n = "btc" THEN b ELSE IF n = "eth" THEN e ELSE sp] :
       b \in BtcCsvs, e \in EthCsvs, sp \in AssetCsvs}

\* The data folder with one csv not there: each asset in turn.
FileSetsWithout ==
    LET full == [n \in {"btc", "eth", "SP500"} |->
                    IF n = "SP500"
                    THEN AssetCsv(Dates, <<1, 2, 4, 2, 1, 2, 4>>)
                    ELSE CryptoCsv(Dates, <<1, 2, 1, 2, 4, 2, 1>>,
                                   <<1, 2, 1, 2, 1, 2, 1>>)]
    IN  {[n \in DOMAIN full \ {gone} |-> full[n]] : gone \in DOMAIN full}

\* The data folder load_returns_matrix reads: each csv has every day, a
\* later first day, a day missing inside, or ends two days before today.
ReturnsFileSets ==
    LET datesets == DateSets \cup {1..(NumDates - 2)}
    IN  {[n \in {"btc", "eth", "SP500"} |->
             IF n = "btc"
             THEN CryptoCsv(b, <<1, 2, 1, 2, 4, 2, 1>>, <<1, 2, 1, 2, 1, 2, 1>>)
             ELSE IF n = "eth"
             THEN CryptoCsv(e, <<2, 1, 2, 4, 2, 1, 1>>, <<2, 1, 1, 2, 4, 2, 1>>)
             ELSE AssetCsv(sp, <<1, 2, 4, 2, 1, 2, 4>>)] :
           b \in datesets, e \in datesets, sp \in datesets}

\* xdays: None, an int, something that is no int.
XDays ==
    {[none |-> TRUE, int |-> FALSE, val |-> 0],
     [none |-> FALSE, int |-> TRUE, val |-> 1],
     [none |-> FALSE, int |-> TRUE, val |-> 2],
     [none |-> FALSE, int |-> FALSE, val |-> 0]}

ReturnsArgs ==
    [assets : {<<>>, <<"btc">>, <<"btc", "eth">>, <<"SP500", "btc">>,
               <<"eth", "SP500", "btc">>, <<"btc", "ltc">>},
     xdays : XDays,
     start_date : {NoDate, 3},
     end_date : {NoDate, NumDates - 1},
     center : BOOLEAN,
     scale : BOOLEAN,
     use_shortnames : {TRUE}]

NewsTables ==
    {[columns |-> <<"sentiment">>,
      rows |-> [i \in 1..(NumDates - 2) |->
                   [date |-> i + 2, v |-> [c \in {"sentiment"} |-> Num(i % 2)]]]]}

CallerLists ==
    {<<>>, <<"eth">>, <<"btc", "eth">>, <<"eth", "btc">>, <<"btc", "eth", "btc">>}

Kwargs ==
    [x_assets : {<<>>, <<"SP500">>}, add_news : BOOLEAN,
     start_date : {1}, end_date : {NumDates}]

Thresholds == {-1, 0, 1}

GetDataArgs ==
    [std : BOOLEAN, lag_indicator : BOOLEAN, y_category : {FALSE},
     y_category_thresh : {1}, y_std : BOOLEAN]
    \cup
    [std : BOOLEAN, lag_indicator : BOOLEAN, y_category : {TRUE},
     y_category_thresh : Thresholds, y_std : BOOLEAN]

NoObject == [constructed |-> FALSE]

NoArgs == [std |-> FALSE, lag_indicator |-> FALSE, y_category |-> FALSE,
           y_category_thresh |-> 1, y_std |-> FALSE]

(***************************************************************************)
(* The state machine.                                                      *)
(***************************************************************************)
InitWith(filesets) ==
    /\ files \in filesets
    /\ news \in NewsTables
    /\ caller \in [x_cryptos : CallerLists, y_crypto : {y_crypto}, kwargs : Kwargs]
    /\ self = NoObject
    /\ pc = "start"
    /\ args = NoArgs
    /\ ret = NoReturn
    /\ prev = [args |-> NoArgs, ret |-> NoReturn]
    /\ calls = 0

\* dm = DesignMatrix(x_cryptos, y_crypto, **kwargs).  The object keeps the
\* caller's list itself, so the caller sees what remove() did to it.
Construct ==
    /\ pc = "start"
    /\ self' = __init__(caller.x_cryptos, caller.y_crypto, caller.kwargs)
    /\ caller' = [caller EXCEPT !.x_cryptos = self'.x_cryptos]
    /\ pc' = "ready"
    /\ UNCHANGED <<files, news, args, ret, prev, calls>>

\* dm.get_data(...) is entered and runs line 206.  The caller still holds
\* what the call before returned.
Call(a, limit) ==
    /\ pc \in {"ready", "returned", "raised"}
    /\ calls < limit
    /\ args' = a
    /\ calls' = calls + 1
    /\ ret' = NoReturn
    /\ prev' = [args |-> args, ret |-> ret]
    /\ LET step == LoadStep(self)
       IN  /\ self' = step.obj
           /\ pc' = IF step.raised THEN "raised" ELSE "loaded"
    /\ UNCHANGED <<files, news, caller>>

Standardize ==
    /\ pc = "loaded"
    /\ LET step == StdStep(self, args)
       IN  /\ self' = step.obj
           /\ pc' = IF step.raised THEN "raised" ELSE "standardized"
    /\ UNCHANGED <<files, news, caller, args, ret, prev, calls>>

LagIndicator ==
    /\ pc = "standardized"
    /\ LET step == LagStep(self, args)
       IN  /\ self' = step.obj
           /\ pc' = IF step.raised THEN "raised" ELSE "indicated"
    /\ UNCHANGED <<files, news, caller, args, ret, prev, calls>>

News ==
    /\ pc = "indicated"
    /\ LET step == NewsStep(self)
       IN  /\ self' = step.obj
           /\ pc' = IF step.raised THEN "raised" ELSE "merged"
    /\ UNCHANGED <<files, news, caller, args, ret, prev, calls>>

Label ==
    /\ pc = "merged"
    /\ LET step == build_label(self, args)
       IN  /\ self' = step.obj
           /\ ret' = step.ret
           /\ pc' = IF step.raised THEN "raised" ELSE "returned"
    /\ UNCHANGED <<files, news, caller, args, prev, calls>>

\* One pipeline run: a fresh object and one get_data call on it.
Init == InitWith(FileSets \cup FileSetsWithout)

Next ==
    \/ Construct
    \/ \E a \in GetDataArgs : Call(a, 1)
    \/ Standardize
    \/ LagIndicator
    \/ News
    \/ Label

Spec == Init /\ [][Next]_vars

\* The object reused: up to MaxCalls get_data calls on it, on the files in
\* which every csv has every day.
InitReuse ==
    InitWith({f \in FileSets \cup FileSetsWithout :
                 \A n \in DOMAIN f : {r.date : r \in f[n]} = Dates})

NextReuse ==
    \/ Construct
    \/ \E a \in GetDataArgs : Call(a, MaxCalls)
    \/ Standardize
    \/ LagIndicator
    \/ News
    \/ Label

SpecReuse == InitReuse /\ [][NextReuse]_vars

\* load_returns_matrix called on the data folder.
InitReturns ==
    /\ files \in ReturnsFileSets
    /\ news \in NewsTables
    /\ caller = [x_cryptos |-> <<>>, y_crypto |-> y_crypto,
                 kwargs |-> CHOOSE k \in Kwargs : k.x_assets = <<>> /\ ~k.add_news]
    /\ self = NoObject
    /\ pc = "start"
    /\ args = NoArgs
    /\ ret = NoReturn
    /\ prev = [args |-> NoArgs, ret |-> NoReturn]
    /\ calls = 0

LoadReturnsMatrix ==
    /\ pc = "start"
    /\ \E a \in ReturnsArgs :
          LET r == load_returns_matrix(a)
          IN  /\ args' = a
              /\ ret' = r.df
              /\ pc' = IF r.raised THEN "raised" ELSE "returned"
    /\ calls' = calls + 1
    /\ UNCHANGED <<files, news, caller, self, prev>>

NextReturns == LoadReturnsMatrix

SpecReturns == InitReturns /\ [][NextReturns]_vars

(***************************************************************************)
(* Properties.                                                             *)
(***************************************************************************)
Constructed == pc # "start"

Count(s, e) == Cardinality({i \in DOMAIN s : s[i] = e})

\* C10: after construction the target id does not occur in x_cryptos, and
\* xy_cryptos is x_cryptos followed by the target id, which it holds once.
C10_TargetExcluded ==
    Constructed =>
        /\ ~Contains(self.x_cryptos, self.y_crypto)
        /\ self.xy_cryptos = Append(self.x_cryptos, self.y_crypto)
        /\ Count(self.xy_cryptos, self.y_crypto) = 1

\* The raw volume change of a crypto csv at one of its dates, before any fill.
RawVolumeChange(obj, crypto, date) ==
    LET csv == load_asset(crypto)
        idx == sort_index(csv)
        i   == CHOOSE k \in DOMAIN idx : idx[k] = date
    IN  IF i <= obj.n_rolling_volume THEN NaN
        ELSE Quot("num",
                  RowAt(csv, date).volume - RowAt(csv, idx[i - obj.n_rolling_volume]).volume,
                  RowAt(csv, idx[i - obj.n_rolling_volume]).volume)

\* The raw price change of a csv at one of its dates.
RawPriceChange(obj, asset, date) ==
    LET csv == load_asset(asset)
        idx == sort_index(csv)
        i   == CHOOSE k \in DOMAIN idx : idx[k] = date
    IN  IF i <= obj.n_rolling_price THEN NaN
        ELSE Quot("num",
                  RowAt(csv, date).close - RowAt(csv, idx[i - obj.n_rolling_price]).close,
                  RowAt(csv, idx[i - obj.n_rolling_price]).close)

CsvDates(asset) == {r.date : r \in load_asset(asset)}

\* C9: in the series _load_crypto_time_series returns, at every date of the
\* csv, a volume change that pct_change left missing is 0 and every other
\* volume change is as computed; the price change is as computed, missing
\* where pct_change left it missing (nothing but volume is zero-filled).
C9_VolumeZeroFill ==
    pc = "loaded" =>
        \A crypto \in Range(self.xy_cryptos) :
            LET out == _load_crypto_time_series(self, crypto)
            IN  \A i \in DOMAIN out.rows :
                    LET row == out.rows[i]
                    IN  row.date \in CsvDates(crypto) =>
                          /\ row.v[col_volume(crypto)] =
                                IF IsNaN(RawVolumeChange(self, crypto, row.date))
                                THEN Num(0)
                                ELSE RawVolumeChange(self, crypto, row.date)
                          /\ row.v[crypto] = RawPriceChange(self, crypto, row.date)

\* C9 happens: a joined row holds the 0 that stands for the missing volume
\* change of a day without volume that follows a day without volume.
C9_Witness ==
    /\ pc = "loaded"
    /\ \E i \in DOMAIN self.df_time_series.rows :
          LET row == self.df_time_series.rows[i]
          IN  /\ row.date > n_rolling_volume
              /\ IsNaN(RawVolumeChange(self, y_crypto, row.date))
              /\ row.v[col_volume(y_crypto)] = Num(0)

\* The dates of the series the loader returns for an asset.
SeriesDates(obj, asset) ==
    LET df == IF asset \in Range(obj.xy_cryptos)
              THEN _load_crypto_time_series(obj, asset)
              ELSE _load_noncrypto_time_series(obj, asset)
    IN  {df.rows[i].date : i \in DOMAIN df.rows}

\* C4: after _load_time_series every row of the combined matrix has a date
\* that every per-asset series has, and no missing cell.
C4_JoinIntegrity ==
    pc = "loaded" =>
        \A i \in DOMAIN self.df_time_series.rows :
            LET row == self.df_time_series.rows[i]
            IN  /\ \A a \in Range(self.xy_cryptos) \cup Range(self.x_assets) :
                      row.date \in SeriesDates(self, a)
                /\ \A c \in self.df_time_series.cols : ~IsNaN(row.v[c])
                /\ self.df_final = self.df_time_series

\* C4 happens: a day that every series has is dropped for a gap in one of
\* them (a day the eth csv lacks), and rows on both sides of it survive.
C4_Witness ==
    /\ pc = "loaded"
    /\ Contains(self.xy_cryptos, "eth")
    /\ \E d \in Dates :
          /\ d \notin CsvDates("eth")
          /\ \A a \in Range(self.xy_cryptos) \cup Range(self.x_assets) :
                d \in SeriesDates(self, a)
          /\ \E i \in DOMAIN self.df_time_series.rows :
                /\ i < Len(self.df_time_series.rows)
                /\ self.df_time_series.rows[i].date < d
                /\ self.df_time_series.rows[i + 1].date > d

\* The standardized columns: <<raw column, standardized column, nominal window>>.
StandardizedColumns(obj) ==
    {<<c, col_px_std(c), obj.n_std_window>> : c \in Range(obj.xy_cryptos)}
    \cup {<<col_volume(c), col_volume_std(c), obj.n_std_window>> :
             c \in Range(obj.xy_cryptos)}
    \cup {<<c, col_px_std(c), obj.n_std_window_noncrypto>> :
             c \in Range(obj.x_assets)}

\* (cur - mean(trailing)) / population_stddev(trailing) for the cell cur and
\* the cells of the positions `trailing` of a column of rationals, as the
\* signed square of the quotient: with every cell brought to the common
\* denominator L, N = number of trailing cells, S and Q their sum and sum of
\* squares, the quotient is (N*cur - S) / sqrt(N*Q - S^2).
ZScore(col, i, trailing) ==
    LET used == trailing \cup {i}
        L    == ProdSeq([j \in 1..Len(col) |-> IF j \in used THEN col[j].d ELSE 1])
        a(j) == col[j].n * (L \div col[j].d)
        idx  == SortedDates(trailing)
        N    == Cardinality(trailing)
        S    == SumSeq([k \in DOMAIN idx |-> a(idx[k])])
        Q    == SumSeq([k \in DOMAIN idx |-> a(idx[k]) * a(idx[k])])
        top  == N * a(i) - S
    IN  Quot("sq", Sgn(top) * top * top, N * Q - S * S)

\* The postcondition of standardization on an object: in every standardized
\* column, at every row i with at least N rows before it (and real numbers in
\* rows i-N..i), the cell is the z-score of row i against rows i-N..i-1.
Standardized(obj) ==
    \A t \in StandardizedColumns(obj) :
        LET raw == Column(obj.df_final, t[1])
            std == Column(obj.df_final, t[2])
            N   == t[3]
        IN  \A i \in DOMAIN raw :
                (i > N /\ \A j \in (i - N)..i : IsFinite(raw[j])) =>
                    std[i] = ZScore(raw, i, (i - N)..(i - 1))

\* C1: when _standardize_price_volume has added the standardized columns,
\* every one of them holds, at every row i >= N, the row's raw value minus the
\* mean of the N rows strictly before it, over their population deviation;
\* no row after i enters.
C1_TrailingWindow ==
    [][(pc = "loaded" /\ args.std /\ pc' = "standardized") => Standardized(self')]_vars

\* C1 happens: a standardized return is a finite non-zero z-score that would
\* differ had the row's own value been part of the window.
C1_Witness ==
    /\ pc = "standardized"
    /\ args.std
    /\ \E i \in DOMAIN self.df_final.rows :
          LET raw == Column(self.df_final, y_crypto)
              std == Column(self.df_final, col_px_std(y_crypto))
          IN  /\ i > n_std_window
              /\ std[i].k = "sq"
              /\ std[i].n # 0
              /\ std[i] # ZScore(raw, i, (i - n_std_window + 1)..i)
              /\ i < Len(raw)

\* The position of a date among the rows of a frame (0 when it has none).
RowOf(df, date) ==
    IF \E i \in DOMAIN df.rows : df.rows[i].date = date
    THEN CHOOSE i \in DOMAIN df.rows : df.rows[i].date = date
    ELSE 0

LastDate(df) == df.rows[Len(df.rows)].date

\* What a returned X, Y must be for the matrix the label was built on: X and
\* Y have the same dates; each returned row is a row i of the matrix that has
\* a next row, and its continuous Y is the source column at row i+1; the last
\* row of the matrix is not returned.
LabelShifted(obj, a, r) ==
    LET df  == obj.df_final
        src == y_continuous_col(obj, a)
    IN  /\ [k \in DOMAIN r.X.rows |-> r.X.rows[k].date] =
           [k \in DOMAIN r.Y |-> r.Y[k].date]
        /\ \A k \in DOMAIN r.Y :
              LET i == RowOf(df, r.Y[k].date)
              IN  /\ 1 <= i
                  /\ i < Len(df.rows)
                  /\ ~a.y_category => r.Y[k].val = df.rows[i + 1].v[src]
        /\ \A k \in DOMAIN r.Y : \A m \in DOMAIN r.Y :
              k < m => RowOf(df, r.Y[k].date) < RowOf(df, r.Y[m].date)

\* C2: in the X, Y get_data returns, Y at a row is the chosen source column
\* at the next row of the matrix, and the last row of the matrix (the one
\* with no next period) is never returned.
C2_LabelShift ==
    [][(pc = "merged" /\ pc' = "returned") =>
          /\ LabelShifted(self, args, ret')
          /\ \A k \in DOMAIN ret'.Y :
                ret'.Y[k].date # LastDate(self.df_time_series)]_vars

\* C2 happens: a call returned at least two rows of continuous Y.
C2_Witness ==
    /\ pc = "returned"
    /\ ~args.y_category
    /\ Len(ret.Y) >= 2
    /\ ret.Y[1].val # ret.Y[2].val

\* The continuous Y of the call that returned r from obj: the Y the same call
\* returns without y_category.
ContinuousY(obj, a) == build_label(obj, [a EXCEPT !.y_category = FALSE]).ret.Y

\* The claim as stated: +1 exactly when Y > t, -1 exactly when Y < -t, else 0.
Categorized(cont, cat, t) ==
    /\ cat \in {Num(-1), Num(0), Num(1)}
    /\ cat = Num(1) <=> Less(Num(t), cont)
    /\ cat = Num(-1) <=> Less(cont, Num(-t))

\* The claim with the order of the two tests: -1 needs Y > t to fail.
CategorizedInOrder(cont, cat, t) ==
    /\ cat \in {Num(-1), Num(0), Num(1)}
    /\ cat = Num(1) <=> Less(Num(t), cont)
    /\ cat = Num(-1) <=> (Less(cont, Num(-t)) /\ ~Less(Num(t), cont))
    /\ (cont = Num(t) \/ cont = Num(-t)) /\ t >= 0 => cat = Num(0)

\* C3 as stated: with y_category and threshold t every returned Y is +1
\* exactly when the continuous Y > t, -1 exactly when it is < -t, 0 otherwise.
C3_AsStated ==
    [][(pc = "merged" /\ pc' = "returned" /\ args.y_category) =>
          LET cont == ContinuousY(self, args)
          IN  /\ Len(cont) = Len(ret'.Y)
              /\ \A k \in DOMAIN cont :
                    Categorized(cont[k].val, ret'.Y[k].val,
                                args.y_category_thresh)]_vars

\* C3 amended: every returned Y is in {-1, 0, +1}: +1 exactly when the
\* continuous Y > t, -1 exactly when it is < -t and not > t, 0 otherwise; for
\* t >= 0 a continuous Y equal to t or to -t maps to 0.
C3_Categories ==
    [][(pc = "merged" /\ pc' = "returned" /\ args.y_category) =>
          LET cont == ContinuousY(self, args)
          IN  /\ Len(cont) = Len(ret'.Y)
              /\ \A k \in DOMAIN cont :
                    /\ cont[k].date = ret'.Y[k].date
                    /\ CategorizedInOrder(cont[k].val, ret'.Y[k].val,
                                          args.y_category_thresh)
                    /\ args.y_category_thresh >= 0 =>
                          Categorized(cont[k].val, ret'.Y[k].val,
                                      args.y_category_thresh)]_vars

\* The raw target return of the day after a date, in the combined matrix.
NextRawReturn(obj, date) ==
    obj.df_time_series.rows[RowOf(obj.df_time_series, date) + 1].v[obj.y_crypto]

\* C3 happens: a call with y_category returned both a 0 for a continuous Y
\* equal to the threshold and a non-zero category.
C3_Witness ==
    /\ pc = "returned"
    /\ args.y_category
    /\ ~(args.std /\ args.y_std)
    /\ \E k \in DOMAIN ret.Y :
          /\ NextRawReturn(self, ret.Y[k].date) = Num(args.y_category_thresh)
          /\ ret.Y[k].val = Num(0)
    /\ \E k \in DOMAIN ret.Y : ret.Y[k].val # Num(0)

\* C5: a get_data call with std=False and lag_indicator=True on an object
\* that was never standardized fails at the indicator step, whatever the
\* predictor list: the object is left as it was, without a lagged_others
\* column or feature name, and the call returns no X, Y.
C5_FailsFast ==
    [][(/\ pc = "standardized"
        /\ args.lag_indicator
        /\ ~args.std
        /\ ~self.done_std_price_and_volume
        /\ pc' # pc) =>
          /\ pc' = "raised"
          /\ self' = self
          /\ ret' = NoReturn
          /\ "lagged_others" \notin self'.df_final.cols
          /\ ~Contains(x_feature_names(self'), "lagged_others")]_vars

\* C5 happens: such a call failed on a loaded matrix that has rows, with an
\* empty predictor list.
C5_Witness ==
    /\ pc = "raised"
    /\ args.lag_indicator
    /\ ~args.std
    /\ self.done_loading_time_series
    /\ ~self.done_std_price_and_volume
    /\ self.x_cryptos = <<>>
    /\ Len(self.df_final.rows) > 0

\* C6: a get_data call that returns, made with the arguments of the call
\* before it on the same object, returns what that call returned: the same
\* rows, the same columns in the same order, the same Y.
C6_SameOutputOnReuse ==
    (pc = "returned" /\ ~prev.ret.none /\ prev.args = args) => ret = prev.ret

RECURSIVE IsSubsequence(_, _)
\* s is t with some elements left out.
IsSubsequence(s, t) ==
    IF s = <<>> THEN TRUE
    ELSE IF t = <<>> THEN FALSE
    ELSE IF Head(s) = Head(t) THEN IsSubsequence(Tail(s), Tail(t))
    ELSE IsSubsequence(s, Tail(t))

IsPrefix(s, t) == Len(s) <= Len(t) /\ SubSeq(t, 1, Len(s)) = s

\* C7 as stated: from one step of a pipeline run to the next, every name of
\* x_feature_names is still in the list, in the same relative order.
C7_AsStated ==
    [][(Constructed /\ Constructed') =>
          IsSubsequence(x_feature_names(self), x_feature_names(self'))]_vars

\* The names of a list that are not raw non-crypto asset names.
NotRawAsset(obj, names) ==
    LET derived(n) == ~Contains(obj.x_assets, n)
    IN  SelectSeq(names, derived)

\* C7 amended: from one step of a pipeline run to the next the list never
\* gets shorter and _x_features is only appended to; every name is still in
\* the list, in the same relative order, except that the step that completes
\* standardization takes the raw non-crypto asset names out.
C7_FeatureNames ==
    [][(Constructed /\ Constructed') =>
          LET before == x_feature_names(self)
              after  == x_feature_names(self')
          IN  /\ Len(before) <= Len(after)
              /\ IsPrefix(self._x_features, self'._x_features)
              /\ IsSubsequence(NotRawAsset(self, before), after)
              /\ (self'.done_std_price_and_volume = self.done_std_price_and_volume)
                    => IsSubsequence(before, after)
              /\ (~self.done_std_price_and_volume /\ self'.done_std_price_and_volume)
                    => after = self'._x_features]_vars

\* C7 happens: standardization, the indicator and the news step have run on
\* an object with a non-crypto asset, whose raw name is no longer listed.
C7_Witness ==
    /\ pc = "merged"
    /\ args.std
    /\ args.lag_indicator
    /\ self.add_news
    /\ self.x_assets # <<>>
    /\ ~Contains(x_feature_names(self), self.x_assets[1])
    /\ Contains(x_feature_names(self), "lagged_others")

\* The call of a fresh object on the same files with the other label source.
OtherLabelSource ==
    get_data(__init__(caller.x_cryptos, caller.y_crypto, caller.kwargs),
             [args EXCEPT !.y_std = ~@])

\* C8 as stated: with std=True the call returns the same X, rows included,
\* whichever label source is chosen.
C8_AsStated ==
    (pc = "returned" /\ args.std) =>
        /\ ~OtherLabelSource.raised
        /\ OtherLabelSource.ret.X = ret.X

\* The X, Y of the call with y_std=True and of the call with y_std=False.
WithYStd == IF args.y_std THEN ret ELSE OtherLabelSource.ret

WithoutYStd == IF args.y_std THEN OtherLabelSource.ret ELSE ret

\* C8 amended: with std=True both label sources return the same columns in
\* the same order, and the rows of X under y_std=True are rows of X under
\* y_std=False, in the same order and with the same values: rows whose
\* next-day standardized target is missing are left out under y_std=True.
C8_LabelSourceKeepsX ==
    (pc = "returned" /\ args.std) =>
        /\ ~OtherLabelSource.raised
        /\ WithYStd.X.columns = WithoutYStd.X.columns
        /\ IsSubsequence(WithYStd.X.rows, WithoutYStd.X.rows)

\* C8 happens: a call with std=True returned rows, and the other label source
\* returns a different Y.
C8_Witness ==
    /\ pc = "returned"
    /\ args.std
    /\ Len(ret.X.rows) >= 2
    /\ OtherLabelSource.ret.Y # ret.Y
    /\ OtherLabelSource.ret.X.rows # <<>>

\* C11: a get_data call on an object that is not loaded, with the csv of one
\* of its assets not there, fails as a whole: it returns no X, Y and leaves
\* the object as it was, df_time_series and df_final unset,
\* done_loading_time_series False, the feature-name list unchanged;
\* whichever asset it is.
C11_LoadFailureKeepsNothing ==
    [][(/\ Constructed
        /\ calls' = calls + 1
        /\ ~self.done_loading_time_series
        /\ \E a \in Range(self.xy_cryptos) \cup Range(self.x_assets) :
              a \notin DOMAIN files) =>
          /\ pc' = "raised"
          /\ ret' = NoReturn
          /\ self' = self
          /\ self'.df_time_series = None
          /\ self'.df_final = None
          /\ ~self'.done_loading_time_series
          /\ self'._x_features = <<>>
          /\ x_feature_names(self') = x_feature_names(self)]_vars

\* C11 happens: a call failed on the csv of the asset loaded last, after the
\* csvs of two cryptos that are there.
C11_Witness ==
    /\ pc = "raised"
    /\ calls >= 1
    /\ "SP500" \notin DOMAIN files
    /\ self.xy_cryptos = <<"eth", "btc">>
    /\ self.x_assets = <<"SP500">>
    /\ ~self.done_loading_time_series

\* The first and the last date of an asset's csv.
FirstSourceDate(asset) == sort_index(load_asset(asset))[1]

LastSourceDate(asset) ==
    LET idx == sort_index(load_asset(asset)) IN idx[Len(idx)]

\* The start and end a call of load_returns_matrix works with.
StartOf(a) == IF a.start_date = NoDate THEN DefaultStart ELSE a.start_date

EndOf(a) == IF a.end_date = NoDate THEN Today ELSE a.end_date

\* C12: in a load_returns_matrix call that returned, each asset's series is
\* indexed by the days from max(start, the asset's first date) to
\* min(end, the asset's last date), and no row of the returned matrix has a
\* date later than the last source date of any asset.
C12_ReindexWithinRange ==
    pc = "returned" =>
        \A i \in DOMAIN args.assets :
            LET asset  == args.assets[i]
                xdays  == IF args.xdays.none THEN 1 ELSE args.xdays.val
                series == returns_series(asset, xdays, StartOf(args), EndOf(args))
                from   == Max(StartOf(args), FirstSourceDate(asset))
                to     == Min(EndOf(args), LastSourceDate(asset))
            IN  /\ [k \in DOMAIN series.rows |-> series.rows[k].date] =
                      [k \in 1..Max(0, to - from + 1) |-> from + k - 1]
                /\ \A k \in DOMAIN ret.rows :
                      ret.rows[k].date <= LastSourceDate(asset)

=============================================================================
